---- MODULE Spec2Model ----
(***************************************************************************)
(* Element: the GraphController (src/.vscode/vscode.h) keeping a persisted *)
(* graph model (a ValueTree with the children "nodes" and "arcs") in step  *)
(* with the GraphProcessor, and the PortCount port expansion               *)
(* (src/unnamed/part_000).                                                 *)
(*                                                                         *)
(* The GraphProcessor, the Node wrapper and the plugin factory are not     *)
(* part of the source files; they are modelled from the specification's    *)
(* section 4.3 and section 6, and are marked so in the model map.          *)
(***************************************************************************)
EXTENDS Integers, Sequences, FiniteSets, TLC

\* ------------------------------------------------------------------ bounds
\* Node IDs a caller may pass are 1..MaxId.
MaxId == 3
\* A plugin's state blob is empty (0) or one of 1..MaxState.
MaxState == 1
\* The longest "arcs" collection of a model handed to setNodeModel.
MaxArcs == 2
\* The number of port kinds (PortType::Unknown); kind 0 is audio, 1 is MIDI.
NumPortTypes == 2
\* Node IDs in the runs that follow plugin state: 1..MaxStateId.
MaxStateId == 2

\* The invalid-ID sentinel addFilter returns on failure: the uint32 with all
\* bits set, written as the signed value of that bit pattern.
\* The largest port count handed to PortCount::set and PortCount::with.
MaxCount == 2

\* The longest MIDI input buffer and the last sample position in it.
MaxEvents == 3
MaxFrame == 1

\* MidiPanic::write sends to the channels 1..16.
MidiChannels == 16

\* The width in bits of the ID counter in the model (the program's is 32).
UidWidth == 2

KV_INVALID_NODE == -1

NodeIds == 1..MaxId
StateIds == 1..MaxStateId
PortTypes == 0..(NumPortTypes - 1)
BlockStates == 0..MaxState
\* The plugin descriptions of the plugin manager; NullDesc is a null pointer.
Descs == {"fx"}
NullDesc == "null"

Range(s) == {s[i] : i \in DOMAIN s}

\* ------------------------------------------------- PortCount (part_000)
\* PortCount::clear: every count zero.
PortCountClear ==
    [inputs |-> [t \in PortTypes |-> 0], outputs |-> [t \in PortTypes |-> 0]]

\* PortCount::set (type, numIns, numOuts).
PortCountSet(pc, type, numIns, numOuts) ==
    [inputs  |-> [pc.inputs  EXCEPT ![type] = numIns],
     outputs |-> [pc.outputs EXCEPT ![type] = numOuts]]

\* PortCount::set (type, count, input).
PortCountSetOne(pc, type, count, input) ==
    IF input THEN [pc EXCEPT !.inputs[type] = count]
    ELSE [pc EXCEPT !.outputs[type] = count]

\* The copy constructor and operator=: both arrays are copied.
PortCountCopy(pc) ==
    [inputs |-> [t \in PortTypes |-> pc.inputs[t]],
     outputs |-> [t \in PortTypes |-> pc.outputs[t]]]

\* PortCount::with (type, count, isInput): a copy, then set on the copy.
PortCountWithOne(pc, type, count, isInput) ==
    PortCountSetOne(PortCountCopy(pc), type, count, isInput)

\* PortCount::with (type, numIns, numOuts).
PortCountWith(pc, type, numIns, numOuts) ==
    PortCountSet(PortCountCopy(pc), type, numIns, numOuts)

\* Ports numbered from 0 in every run.
PortRunNoOffset(type, first, n, isInput) ==
    [k \in 1..n |-> [type |-> type, index |-> k - 1,
                     channel |-> k - 1, input |-> isInput, number |-> k]]

\* The n ports one inner loop of getPorts adds: channel j gets global index
\* first + j, and the number j + 1 in its symbol and name.
PortRun(type, first, n, isInput) ==
    [k \in 1..n |-> [type |-> type, index |-> first + (k - 1),
                     channel |-> k - 1, input |-> isInput, number |-> k]]

RECURSIVE GetPortsFrom(_, _, _)
GetPortsFrom(pc, i, index) ==
    IF i >= NumPortTypes THEN <<>>
    ELSE LET ins  == PortRun(i, index, pc.inputs[i], TRUE)
             outs == PortRun(i, index + Len(ins), pc.outputs[i], FALSE)
         IN  ins \o outs \o GetPortsFrom(pc, i + 1, index + Len(ins) + Len(outs))

\* PortCount::getPorts: kinds in enumeration order, inputs before outputs.
GetPorts(pc) == GetPortsFrom(pc, 0, 0)

\* ------------------------------------------------------ plugin factory
\* The channel layout of a fresh instance: one audio input, one audio
\* output and one MIDI input, i.e. ports 0 (audio in), 1 (audio out),
\* 2 (MIDI in).
DescPortCount(desc) ==
    PortCountSet(PortCountSet(PortCountClear, 0, 1, 1), 1, 1, 0)

\* PluginManager::createAudioPlugin on success: a fresh instance, its state
\* blob empty.
NewInstance(desc) == [desc |-> desc, state |-> 0, ports |-> DescPortCount(desc)]

\* --------------------------------------------- MemoryBlock text encoding
\* A "state" property read as text: absent reads as the empty string.
EmptyText == [form |-> "empty", size |-> 0, data |-> 0]

\* MemoryBlock::toBase64Encoding: "<size>.<characters>".
ToBase64Encoding(block) ==
    [form |-> "b64", size |-> IF block = 0 THEN 0 ELSE 1, data |-> block]

\* MemoryBlock::fromBase64Encoding: false on text that is not "<size>.<...>".
FromBase64Ok(text) == text.form = "b64"
FromBase64Block(text) == IF text.form = "b64" /\ text.size > 0 THEN text.data ELSE 0

\* -------------------------------------------------------------- state
VARIABLES
    procNodes,   \* GraphProcessor: node ID -> the node's plugin instance
    conns,       \* GraphProcessor: the connection list, 4-tuples
    graphValid,  \* GraphController::graph.isValid()
    children,    \* the names of graph's children, in sibling order
    nodes,       \* the entries of the "nodes" collection
    arcs,        \* the entries of the "arcs" collection
    op,          \* the controller call that returned last
    result,      \* its return value (1/0 for true/false, 0 for void)
    notified,    \* the change notifications it published
    alerts,      \* the alert boxes it showed
    requested,   \* setNodeModel: the IDs of the entries it was given
    failed,      \* setNodeModel: the IDs of the entries it could not create
    aborted,     \* a fatal contract violation stopped the program
    lastUID,     \* GraphController::lastUID
    issued,      \* history: the values getNextUID returned, in call order
    removedIds,  \* history: the IDs removeFilter or clear took out
    loading,     \* a setNodeModel in progress: where it is in its loops
    renderSeen,        \* what the render path read last, if it just read
    portCount,   \* a PortCount value
    portList,    \* the PortList its getPorts filled last
    midi         \* MidiPanic::processCC: input buffer, output buffer, result

procVars  == <<procNodes, conns>>
modelVars == <<graphValid, children, nodes, arcs>>
obsVars   == <<op, result, notified, alerts, requested, failed>>
ctlVars   == <<procNodes, conns, graphValid, children, nodes, arcs,
               op, result, notified, alerts, requested, failed, aborted>>
uidVars   == <<lastUID, issued>>
renderVars == <<loading, renderSeen>>
pureVars  == <<portCount, portList, midi>>
auxVars   == <<lastUID, issued, removedIds, loading, renderSeen, portCount, portList, midi>>
vars == <<procNodes, conns, graphValid, children, nodes, arcs,
          op, result, notified, alerts, requested, failed, aborted,
          lastUID, issued, removedIds, loading, renderSeen, portCount, portList, midi>>


\* ------------------------------------------- GraphProcessor (spec 4.3)
\* A node ID with no node registered under it.
NoNode == [live |-> FALSE, desc |-> "", state |-> 0, ports |-> PortCountClear]

LiveNode(inst) ==
    [live |-> TRUE, desc |-> inst.desc, state |-> inst.state, ports |-> inst.ports]

\* The IDs of the nodes the processor holds.
ProcIds(pn) == {i \in NodeIds : pn[i].live}

\* GraphProcessor::getNumNodes and getNumConnections.
GetNumNodes(pn) == Cardinality(ProcIds(pn))
GetNumConnections(cs) == Len(cs)

\* GraphProcessor::addNode (instance, nodeId): registers the node under nodeId.
ProcAddNode(pn, inst, nodeId) == [pn EXCEPT ![nodeId] = LiveNode(inst)]

HasPort(node, p) == p \in 0..(Len(GetPorts(node.ports)) - 1)
PortOf(node, p) == GetPorts(node.ports)[p + 1]

\* The nodes reachable from the nodes of `seen` along connections.
RECURSIVE ReachableFrom(_, _)
ReachableFrom(cs, seen) ==
    LET next == seen \cup {c[3] : c \in {x \in Range(cs) : x[1] \in seen}}
    IN  IF next = seen THEN seen ELSE ReachableFrom(cs, next)

\* GraphProcessor::canConnect: both nodes exist, both ports exist, the source
\* is an output and the destination an input of the same kind, the tuple is
\* new, and the source is not reachable from the destination.
ProcCanConnect(pn, cs, c) ==
    /\ c[1] \in ProcIds(pn)
    /\ c[3] \in ProcIds(pn)
    /\ HasPort(pn[c[1]], c[2])
    /\ HasPort(pn[c[3]], c[4])
    /\ ~PortOf(pn[c[1]], c[2]).input
    /\ PortOf(pn[c[3]], c[4]).input
    /\ PortOf(pn[c[1]], c[2]).type = PortOf(pn[c[3]], c[4]).type
    /\ c \notin Range(cs)
    /\ c[1] \notin ReachableFrom(cs, {c[3]})

\* GraphProcessor::addConnection: re-validates, then inserts.
ProcAddConnection(pn, cs, c) ==
    IF ProcCanConnect(pn, cs, c) THEN Append(cs, c) ELSE cs

\* GraphProcessor::removeConnection (index): removes the entry at index, if any.
ProcRemoveConnectionAt(cs, index) ==
    IF index \in 0..(Len(cs) - 1)
    THEN SubSeq(cs, 1, index) \o SubSeq(cs, index + 2, Len(cs))
    ELSE cs

\* GraphProcessor::removeConnection (4-tuple): removes the matching entry, if any.
ProcRemoveConnection(cs, c) == SelectSeq(cs, LAMBDA x : x # c)

\* GraphProcessor::disconnectNode: removes every connection touching id.
ProcDisconnectNode(cs, id) == SelectSeq(cs, LAMBDA x : x[1] # id /\ x[3] # id)

\* GraphProcessor::removeNode: erases the node (its connections go first).
ProcRemoveNode(pn, id) == [pn EXCEPT ![id] = NoNode]

\* A connection whose port indices are valid for both endpoints' port lists.
LegalConnection(pn, c) ==
    /\ c[1] \in ProcIds(pn)
    /\ c[3] \in ProcIds(pn)
    /\ HasPort(pn[c[1]], c[2])
    /\ HasPort(pn[c[3]], c[4])

\* GraphProcessor::removeIllegalConnections.
ProcRemoveIllegalConnections(pn, cs) ==
    SelectSeq(cs, LAMBDA x : LegalConnection(pn, x))

\* GraphProcessor::clear.
ProcClearNodes == [i \in NodeIds |-> NoNode]

\* ------------------------------------------------ ValueTree helpers
\* ValueTree::indexOf: the 0-based position, or -1.
IndexOf(seq, x) ==
    IF \E i \in DOMAIN seq : seq[i] = x
    THEN (CHOOSE i \in DOMAIN seq : seq[i] = x /\ \A j \in 1..(i - 1) : seq[j] # x) - 1
    ELSE -1

\* ValueTree::removeChild (index).
RemoveAt(seq, index) == SubSeq(seq, 1, index) \o SubSeq(seq, index + 2, Len(seq))

\* ValueTree::removeChild (child): a no-op when it is no child.
RemoveChild(seq, x) ==
    IF IndexOf(seq, x) < 0 THEN seq ELSE RemoveAt(seq, IndexOf(seq, x))

\* ValueTree::addChild (child, index): at the end when index is negative or
\* past the end.
AddChild(seq, x, index) ==
    IF index < 0 \/ index >= Len(seq) THEN Append(seq, x)
    ELSE SubSeq(seq, 1, index) \o <<x>> \o SubSeq(seq, index + 1, Len(seq))

\* Node::makeArc: the "arcs" entry of a connection; ArcTuple reads it back.
MakeArc(c) ==
    [sourceNode |-> c[1], sourcePort |-> c[2], destNode |-> c[3], destPort |-> c[4]]
ArcTuple(a) == <<a.sourceNode, a.sourcePort, a.destNode, a.destPort>>

\* The "nodes" entry addFilter adds: a copy of the node's metadata with the
\* node object attached; no state has been saved yet.
NodeEntry(nodeId, desc) ==
    [id |-> nodeId, desc |-> desc, state |-> EmptyText, object |-> TRUE]

EntryIds(ns) == {ns[i].id : i \in DOMAIN ns}

\* ------------------------------------------------------ GraphController
\* What a call hands back to its caller.
Obs(o, r, n, a) ==
    /\ op' = o
    /\ result' = r
    /\ notified' = n
    /\ alerts' = a
    /\ requested' = {}
    /\ failed' = {}

\* The connection list as a fresh "arcs" collection (processorArcsChanged,
\* lines 246-248).
NewArcs(cs) == [i \in 1..Len(cs) |-> MakeArc(cs[i])]

\* The root's children after the swap (lines 249-251): the new collection
\* goes where the old one was.
SwapArcs(ch) == AddChild(RemoveChild(ch, "arcs"), "arcs", IndexOf(ch, "arcs"))

\* What a listener of the graph is shown while processorArcsChanged runs:
\* the root's children and the entries of the "arcs" collection after
\* removeChild (line 250) and after addChild (line 251). The new collection
\* is filled (lines 246-248) before it has a parent, and an invalid graph
\* calls no listener.
SwapViews(valid, ch, cs) ==
    IF ~valid THEN <<>>
    ELSE (IF IndexOf(ch, "arcs") < 0 THEN <<>>
          ELSE <<[children |-> RemoveChild(ch, "arcs"), entries |-> <<>>]>>)
         \o <<[children |-> SwapArcs(ch), entries |-> NewArcs(cs)]>>

\* processorArcsChanged on a graph with children ch (valid or not), the
\* processor holding the connections cs. On an invalid graph addChild does
\* nothing and getChildWithName yields an invalid tree: no entries.
ProcessorArcsChanged(valid, ch, cs) ==
    /\ arcs' = IF valid THEN NewArcs(cs) ELSE <<>>
    /\ children' = IF valid THEN SwapArcs(ch) ELSE ch

\* createFilter that registers a node whether or not the plugin came up.
CreateFilterAlways(pn, desc, nodeId, ok) ==
    ProcAddNode(pn, NewInstance(desc), nodeId)

\* createFilter: the processor's nodes afterwards; `ok` is whether the plugin
\* manager produced an instance.
CreateFilter(pn, desc, nodeId, ok) ==
    IF ok THEN ProcAddNode(pn, NewInstance(desc), nodeId) ELSE pn

\* nodes.addChild (model, -1): nothing is added to an invalid tree.
AddNodeEntry(valid, ns, e) == IF valid THEN AddChild(ns, e, -1) ELSE ns

\* addFilter (lines 63-91). A node ID already registered is a contract
\* violation of addNode: the program stops.
AddFilter(desc, nodeId, ok) ==
    /\ ~aborted
    /\ IF desc = NullDesc
       THEN /\ UNCHANGED <<procNodes, conns, graphValid, children, nodes, arcs, aborted>>
            /\ Obs("addFilter", KV_INVALID_NODE, 0, 1)
       ELSE IF ok /\ nodeId \in ProcIds(procNodes)
       THEN /\ aborted' = TRUE
            /\ UNCHANGED <<procNodes, conns, graphValid, children, nodes, arcs>>
            /\ UNCHANGED obsVars
       ELSE /\ procNodes' = CreateFilter(procNodes, desc, nodeId, ok)
            /\ IF ok
               THEN /\ nodes' = AddNodeEntry(graphValid, nodes, NodeEntry(nodeId, desc))
                    /\ Obs("addFilter", nodeId, 1, 0)
               ELSE /\ UNCHANGED nodes
                    /\ Obs("addFilter", KV_INVALID_NODE, 0, 1)
            /\ UNCHANGED <<conns, graphValid, children, arcs, aborted>>

\* A removal loop that takes no entry out.
RemoveEntriesNone(ns, uid, i) == ns

\* The loop of removeFilter (lines 98-105): the index moves on after a removal.
RECURSIVE RemoveEntries(_, _, _)
RemoveEntries(ns, uid, i) ==
    IF i >= Len(ns) THEN ns
    ELSE IF ns[i + 1].id = uid
         THEN RemoveEntries(RemoveAt(ns, i), uid, i + 1)
         ELSE RemoveEntries(ns, uid, i + 1)

\* removeFilter without the early return of lines 95-96.
RemoveFilterNoReturn(uid) ==
    /\ ~aborted
    /\ procNodes' = ProcRemoveNode(procNodes, uid)
    /\ conns' = ProcDisconnectNode(conns, uid)
    /\ nodes' = RemoveEntries(nodes, uid, 0)
    /\ ProcessorArcsChanged(graphValid, children, conns')
    /\ UNCHANGED <<graphValid, aborted>>
    /\ Obs("removeFilter", 0, 1, 0)

\* removeFilter (lines 93-109).
RemoveFilter(uid) ==
    /\ ~aborted
    /\ IF uid \notin ProcIds(procNodes)
       THEN /\ UNCHANGED <<procNodes, conns, graphValid, children, nodes, arcs, aborted>>
            /\ Obs("removeFilter", 0, 0, 0)
       ELSE /\ procNodes' = ProcRemoveNode(procNodes, uid)
            /\ conns' = ProcDisconnectNode(conns, uid)
            /\ nodes' = RemoveEntries(nodes, uid, 0)
            /\ ProcessorArcsChanged(graphValid, children, conns')
            /\ UNCHANGED <<graphValid, aborted>>
            /\ Obs("removeFilter", 0, 1, 0)

\* disconnectFilter (lines 111-115).
DisconnectFilter(id) ==
    /\ ~aborted
    /\ conns' = ProcDisconnectNode(conns, id)
    /\ IF conns' # conns
       THEN /\ ProcessorArcsChanged(graphValid, children, conns')
            /\ Obs("disconnectFilter", 0, 1, 0)
       ELSE /\ UNCHANGED <<children, arcs>>
            /\ Obs("disconnectFilter", 0, 0, 0)
    /\ UNCHANGED <<procNodes, graphValid, nodes, aborted>>

\* removeIllegalConnections (lines 117-121).
RemoveIllegalConnections ==
    /\ ~aborted
    /\ conns' = ProcRemoveIllegalConnections(procNodes, conns)
    /\ IF conns' # conns
       THEN /\ ProcessorArcsChanged(graphValid, children, conns')
            /\ Obs("removeIllegalConnections", 0, 1, 0)
       ELSE /\ UNCHANGED <<children, arcs>>
            /\ Obs("removeIllegalConnections", 0, 0, 0)
    /\ UNCHANGED <<procNodes, graphValid, nodes, aborted>>

\* addConnection (lines 148-157).
AddConnection(c) ==
    /\ ~aborted
    /\ conns' = ProcAddConnection(procNodes, conns, c)
    /\ IF ProcCanConnect(procNodes, conns, c)
       THEN /\ ProcessorArcsChanged(graphValid, children, conns')
            /\ Obs("addConnection", 1, 1, 0)
       ELSE /\ UNCHANGED <<children, arcs>>
            /\ Obs("addConnection", 0, 0, 0)
    /\ UNCHANGED <<procNodes, graphValid, nodes, aborted>>

\* removeConnection (index) (lines 159-163): the resync is unconditional.
RemoveConnectionAt(index) ==
    /\ ~aborted
    /\ conns' = ProcRemoveConnectionAt(conns, index)
    /\ ProcessorArcsChanged(graphValid, children, conns')
    /\ Obs("removeConnectionAt", 0, 1, 0)
    /\ UNCHANGED <<procNodes, graphValid, nodes, aborted>>

\* removeConnection (4-tuple) (lines 165-170).
RemoveConnection(c) ==
    /\ ~aborted
    /\ conns' = ProcRemoveConnection(conns, c)
    /\ IF conns' # conns
       THEN /\ ProcessorArcsChanged(graphValid, children, conns')
            /\ Obs("removeConnection", 0, 1, 0)
       ELSE /\ UNCHANGED <<children, arcs>>
            /\ Obs("removeConnection", 0, 0, 0)
    /\ UNCHANGED <<procNodes, graphValid, nodes, aborted>>

\* Lines 238-239 left out: the two collections are not put back.
ClearChildrenGone(ch) ==
    SelectSeq(ch, LAMBDA n : n \notin {"nodes", "arcs"})

\* The root's children after clear (lines 234-239): both collections are
\* taken out and added back at the end, "nodes" first.
ClearChildren(ch) ==
    AddChild(AddChild(RemoveChild(RemoveChild(ch, "arcs"), "nodes"), "nodes", -1),
             "arcs", -1)

\* clear (lines 229-242).
Clear ==
    /\ ~aborted
    /\ procNodes' = ProcClearNodes
    /\ conns' = <<>>
    /\ nodes' = <<>>
    /\ arcs' = <<>>
    /\ children' = IF graphValid THEN ClearChildren(children) ELSE children
    /\ UNCHANGED <<graphValid, aborted>>
    /\ Obs("clear", 0, 1, 0)

\* ------------------------------------------------------- setNodeModel
\* A node created from an entry (lines 183-188): the stored state is
\* restored when it decodes.
RestoredInstance(e) ==
    IF FromBase64Ok(e.state)
    THEN [NewInstance(e.desc) EXCEPT !.state = FromBase64Block(e.state)]
    ELSE NewInstance(e.desc)

\* The first loop of setNodeModel (lines 179-195): the processor's nodes
\* after createFilter ran for every entry; it fails for the IDs of failIds.
RECURSIVE CreateEntries(_, _, _)
CreateEntries(pn, ns, failIds) ==
    IF ns = <<>> THEN pn
    ELSE CreateEntries(IF Head(ns).id \in failIds THEN pn
                       ELSE ProcAddNode(pn, RestoredInstance(Head(ns)), Head(ns).id),
                       Tail(ns), failIds)

\* Two entries that are both created share an ID: addNode's contract is broken.
DuplicateIds(ns, failIds) ==
    \E i, j \in DOMAIN ns :
        i < j /\ ns[i].id = ns[j].id /\ ns[i].id \notin failIds

\* Lines 196-197 left out: the failed entries stay in the collection.
KeptEntriesAll(ns, failIds) ==
    [i \in 1..Len(ns) |-> [ns[i] EXCEPT !.object = (ns[i].id \notin failIds)]]

\* The "nodes" collection after the failed entries were removed (lines
\* 196-197); every kept entry carries its node object (line 188).
KeptEntries(ns, failIds) ==
    LET kept == SelectSeq(ns, LAMBDA e : e.id \notin failIds)
    IN  [i \in 1..Len(kept) |-> [kept[i] EXCEPT !.object = TRUE]]

\* Stored arcs taken over as connections without the processor's check.
ApplyArcsUnchecked(pn, cs, as) ==
    cs \o [i \in 1..Len(as) |-> ArcTuple(as[i])]

\* The second loop (lines 201-208): every stored tuple goes through the
\* processor's addConnection.
RECURSIVE ApplyArcs(_, _, _)
ApplyArcs(pn, cs, as) ==
    IF as = <<>> THEN cs
    ELSE ApplyArcs(pn, ProcAddConnection(pn, cs, ArcTuple(Head(as))), Tail(as))

\* setNodeModel (lines 172-212) with the graph m = [children, nodes, arcs]
\* as it is once clear() has run.
SetNodeModel(m, failIds, label) ==
    /\ ~aborted
    /\ IF DuplicateIds(m.nodes, failIds)
       THEN /\ aborted' = TRUE
            /\ UNCHANGED <<procNodes, conns, graphValid, children, nodes, arcs>>
            /\ UNCHANGED obsVars
       ELSE /\ procNodes' = CreateEntries(ProcClearNodes, m.nodes, failIds)
            /\ conns' = ApplyArcs(procNodes', <<>>, m.arcs)
            /\ graphValid' = TRUE
            /\ nodes' = KeptEntries(m.nodes, failIds)
            /\ ProcessorArcsChanged(TRUE, m.children, conns')
            /\ op' = label
            /\ result' = 0
            /\ notified' = 2
            /\ alerts' = 0
            /\ requested' = EntryIds(m.nodes)
            /\ failed' = failIds
            /\ UNCHANGED aborted

\* The persisted model written out and read back: the node objects are
\* not part of the text.
SerializedModel ==
    [children |-> children,
     nodes |-> [i \in 1..Len(nodes) |-> [nodes[i] EXCEPT !.object = FALSE]],
     arcs |-> arcs]

\* The controller's own graph handed to setNodeModel: clear() has emptied it
\* by the time it is read.
OwnModelCleared ==
    [children |-> ClearChildren(children), nodes |-> <<>>, arcs |-> <<>>]

\* --------------------------------------------------- savePluginStates
\* Line 224 left out: the property is written whatever the block's size.
SavedStateAlways(pn, e) ==
    ToBase64Encoding(IF e.object /\ pn[e.id].live THEN pn[e.id].state ELSE 0)

\* The state property of entry e after savePluginStates (lines 218-225).
SavedState(pn, e) ==
    LET state == IF e.object /\ pn[e.id].live THEN pn[e.id].state ELSE 0
    IN  IF state > 0 THEN ToBase64Encoding(state) ELSE e.state

\* savePluginStates (lines 214-227).
SavePluginStates ==
    /\ ~aborted
    /\ nodes' = [i \in 1..Len(nodes) |->
                    [nodes[i] EXCEPT !.state = SavedState(procNodes, nodes[i])]]
    /\ UNCHANGED <<procNodes, conns, graphValid, children, arcs, aborted>>
    /\ Obs("savePluginStates", 0, 0, 0)

\* The plugin of node id changes its own state (the user turns a knob or
\* resets it); not a controller call.
PluginStateChanged(id, s) ==
    /\ ~aborted
    /\ id \in ProcIds(procNodes)
    /\ procNodes[id].state # s
    /\ procNodes' = [procNodes EXCEPT ![id].state = s]
    /\ UNCHANGED <<conns, graphValid, children, nodes, arcs, aborted>>
    /\ Obs("pluginStateChanged", 0, 0, 0)

\* ------------------------------------------------ channel layouts
\* A layout with a single port, the audio input at index 0.
ShrunkPortCount == PortCountSet(PortCountClear, 0, 1, 0)

\* The layouts a live plugin can take on.
Layouts == {DescPortCount("fx"), ShrunkPortCount}

\* The plugin of node id changes its channel layout; not a controller call.
PortsChanged(id, pc) ==
    /\ ~aborted
    /\ id \in ProcIds(procNodes)
    /\ procNodes[id].ports # pc
    /\ procNodes' = [procNodes EXCEPT ![id].ports = pc]
    /\ UNCHANGED <<conns, graphValid, children, nodes, arcs, aborted>>
    /\ Obs("portsChanged", 0, 0, 0)

\* ------------------------------------------- setNodeModel, call by call
\* No setNodeModel is running.
Idle == [active |-> FALSE]

\* The render path is not reading.
NoRead == [read |-> FALSE]

\* What the render path consults: the processor's nodes and connections.
Topology(pn, cs) == [ids |-> ProcIds(pn), conns |-> cs]

\* setNodeModel up to its first loop (lines 174-178): clear() has emptied
\* the processor, the controller points at the supplied graph.
LoadBegin(m, failIds) ==
    /\ ~aborted
    /\ ~loading.active
    /\ loading' = [active |-> TRUE, phase |-> "nodes", i |-> 0,
                   failIds |-> failIds, requested |-> EntryIds(m.nodes),
                   prior |-> Topology(procNodes, conns),
                   new |-> LET pn == CreateEntries(ProcClearNodes, m.nodes, failIds)
                           IN  Topology(pn, ApplyArcs(pn, <<>>, m.arcs))]
    /\ procNodes' = ProcClearNodes
    /\ conns' = <<>>
    /\ graphValid' = TRUE
    /\ children' = m.children
    /\ nodes' = m.nodes
    /\ arcs' = m.arcs
    /\ Obs("clear", 0, 1, 0)
    /\ UNCHANGED aborted

\* One pass of the first loop (lines 179-195).
LoadNode ==
    /\ loading.active /\ loading.phase = "nodes" /\ loading.i < Len(nodes)
    /\ LET e == nodes[loading.i + 1]
       IN  IF e.id \notin loading.failIds
           THEN /\ procNodes' = ProcAddNode(procNodes, RestoredInstance(e), e.id)
                /\ nodes' = [nodes EXCEPT ![loading.i + 1].object = TRUE]
           ELSE UNCHANGED <<procNodes, nodes>>
    /\ loading' = [loading EXCEPT !.i = loading.i + 1]
    /\ UNCHANGED <<conns, graphValid, children, arcs, aborted>>
    /\ UNCHANGED obsVars

\* The failed entries are taken out (lines 196-199).
LoadPrune ==
    /\ loading.active /\ loading.phase = "nodes" /\ loading.i = Len(nodes)
    /\ nodes' = KeptEntries(nodes, loading.failIds)
    /\ loading' = [loading EXCEPT !.phase = "arcs", !.i = 0]
    /\ UNCHANGED <<procNodes, conns, graphValid, children, arcs, aborted>>
    /\ UNCHANGED obsVars

\* One pass of the second loop (lines 201-208).
LoadArc ==
    /\ loading.active /\ loading.phase = "arcs" /\ loading.i < Len(arcs)
    /\ conns' = ProcAddConnection(procNodes, conns, ArcTuple(arcs[loading.i + 1]))
    /\ loading' = [loading EXCEPT !.i = loading.i + 1]
    /\ UNCHANGED <<procNodes, graphValid, children, nodes, arcs, aborted>>
    /\ UNCHANGED obsVars

\* The end of setNodeModel (lines 210-212).
LoadEnd ==
    /\ loading.active /\ loading.phase = "arcs" /\ loading.i = Len(arcs)
    /\ ProcessorArcsChanged(graphValid, children, conns)
    /\ loading' = Idle
    /\ op' = "setNodeModel"
    /\ result' = 0
    /\ notified' = 1
    /\ alerts' = 0
    /\ requested' = loading.requested
    /\ failed' = loading.failIds
    /\ UNCHANGED <<procNodes, conns, graphValid, nodes, aborted>>

\* The render path reads the processor's topology. While a setNodeModel
\* runs, the complete topologies are the one before it and the one after it.
RenderRead ==
    /\ ~aborted
    /\ ~renderSeen.read
    /\ renderSeen' = [read |-> TRUE,
                topology |-> Topology(procNodes, conns),
                complete |-> IF loading.active
                             THEN {loading.prior, loading.new}
                             ELSE {Topology(procNodes, conns)}]
    /\ UNCHANGED <<ctlVars, uidVars, removedIds, loading, pureVars>>

\* ------------------------------------------------------- getNextUID
\* The counter's range: an unsigned integer of UidWidth bits.
UidModulus == 2 ^ UidWidth

\* A counter that stays where it is.
NextUIDStuck(last) == last

\* ++lastUID on an unsigned counter (line 35).
NextUID(last) == (last + 1) % UidModulus

\* getNextUID (lines 33-36).
GetNextUID ==
    /\ ~aborted
    /\ Len(issued) < UidModulus
    /\ lastUID' = NextUID(lastUID)
    /\ issued' = Append(issued, lastUID')
    /\ Obs("getNextUID", lastUID', 0, 0)
    /\ UNCHANGED <<procNodes, conns, graphValid, children, nodes, arcs, aborted>>

\* ------------------------------------------------------------- inputs
\* Connection tuples a caller passes: audio-out to audio-in between any two
\* IDs of ids (self connections included), and between the first two IDs a
\* tuple into an output port, one into a MIDI input and one into a missing
\* port.
TuplesOver(ids) ==
    {<<s, 1, d, 0>> : s \in ids, d \in ids}
        \cup {<<1, 0, 2, 1>>, <<1, 1, 2, 2>>, <<1, 1, 2, 3>>}

\* Indices for removeConnection (index): -1, the valid ones, one past the end.
IndexInputs == (-1)..Len(conns)

\* The entries of a supplied model: the IDs of ids in ascending order.
RECURSIVE EntriesOf(_, _)
EntriesOf(ids, text) ==
    IF ids = {} THEN <<>>
    ELSE LET i == CHOOSE x \in ids : \A y \in ids : x <= y
         IN  <<[id |-> i, desc |-> "fx", state |-> text[i], object |-> FALSE]>>
             \o EntriesOf(ids \ {i}, text)

StateTexts == {EmptyText} \cup {ToBase64Encoding(b) : b \in 1..MaxState}

\* The "arcs" collections of supplied models: up to MaxArcs audio tuples
\* between the first two IDs, in both directions, and a self connection.
ArcInputs == {MakeArc(<<1, 1, 2, 0>>), MakeArc(<<2, 1, 1, 0>>), MakeArc(<<1, 1, 1, 0>>)}
ArcLists == UNION {[1..n -> ArcInputs] : n \in 0..MaxArcs}

\* The entries the plugin manager cannot instantiate: none, or one of them.
FailSets(ids) == {{}} \cup {{i} : i \in ids}

\* Models without stored plugin state: every node present, any arcs list.
TopologyModels ==
    {[children |-> <<"nodes", "arcs">>,
      nodes |-> EntriesOf(NodeIds, [i \in NodeIds |-> EmptyText]),
      arcs |-> as] : as \in ArcLists}

\* Models with stored plugin state over the IDs of ids.
StateModels(ids) ==
    {[children |-> ch, nodes |-> EntriesOf(present, text), arcs |-> as] :
        ch \in {<<"nodes", "arcs">>, <<"arcs", "nodes">>},
        present \in SUBSET ids,
        text \in [ids -> StateTexts],
        as \in {<<>>, <<MakeArc(<<1, 1, 2, 0>>)>>}}

\* --------------------------------------------------------------- spec
\* No buffers: processCC has not been handed any.
NoMidi == [in |-> <<>>, out |-> <<>>, ret |-> FALSE, cc |-> 0]

\* After construction (lines 27-29): no graph, an empty processor.
Constructed ==
    /\ procNodes = ProcClearNodes
    /\ conns = <<>>
    /\ graphValid = FALSE
    /\ children = <<>>
    /\ nodes = <<>>
    /\ arcs = <<>>
    /\ op = "constructed"
    /\ result = 0
    /\ notified = 0
    /\ alerts = 0
    /\ requested = {}
    /\ failed = {}
    /\ aborted = FALSE
    /\ lastUID = 0
    /\ issued = <<>>
    /\ removedIds = {}
    /\ loading = Idle
    /\ renderSeen = NoRead
    /\ portCount = PortCountClear
    /\ portList = <<>>

Init ==
    /\ Constructed
    /\ midi = NoMidi

\* The controller calls with node IDs from ids and models from models; they
\* leave the counter and the histories alone.
Calls(ids, models) ==
    \/ /\ \E desc \in Descs \cup {NullDesc}, nodeId \in ids, ok \in BOOLEAN :
              AddFilter(desc, nodeId, ok)
       /\ UNCHANGED auxVars
    \/ /\ \E uid \in ids : RemoveFilter(uid)
       /\ UNCHANGED auxVars
    \/ /\ \E id \in ids : DisconnectFilter(id)
       /\ UNCHANGED auxVars
    \/ /\ RemoveIllegalConnections
       /\ UNCHANGED auxVars
    \/ /\ \E c \in TuplesOver(ids) : AddConnection(c)
       /\ UNCHANGED auxVars
    \/ /\ \E index \in IndexInputs : RemoveConnectionAt(index)
       /\ UNCHANGED auxVars
    \/ /\ \E c \in TuplesOver(ids) : RemoveConnection(c)
       /\ UNCHANGED auxVars
    \/ /\ \E m \in models : \E failIds \in FailSets(EntryIds(m.nodes)) :
              SetNodeModel(m, failIds, "setNodeModel")
       /\ UNCHANGED auxVars
    \/ /\ graphValid
       /\ \E failIds \in FailSets(EntryIds(nodes)) :
              SetNodeModel(SerializedModel, failIds, "setNodeModel:copy")
       /\ UNCHANGED auxVars
    \/ /\ graphValid
       /\ SetNodeModel(OwnModelCleared, {}, "setNodeModel:self")
       /\ UNCHANGED auxVars
    \/ /\ SavePluginStates
       /\ UNCHANGED auxVars
    \/ /\ Clear
       /\ UNCHANGED auxVars

Next == Calls(NodeIds, TopologyModels)

Spec == Init /\ [][Next]_vars

\* The same calls over fewer IDs, with plugins whose state changes and models
\* that carry stored state.
NextState ==
    \/ Calls(StateIds, StateModels(StateIds))
    \/ /\ \E id \in StateIds, s \in BlockStates : PluginStateChanged(id, s)
       /\ UNCHANGED auxVars

SpecState == Init /\ [][NextState]_vars

\* Models over the IDs of StateIds without stored state: any subset of the
\* nodes, with or without the arc between the first two.
IdModels ==
    {[children |-> <<"nodes", "arcs">>,
      nodes |-> EntriesOf(present, [i \in StateIds |-> EmptyText]),
      arcs |-> as] :
        present \in SUBSET StateIds,
        as \in {<<>>, <<MakeArc(<<1, 1, 2, 0>>)>>}}

\* The IDs a step takes out of the processor by removeFilter or clear.
TakenOut ==
    IF op' \in {"removeFilter", "clear"}
    THEN ProcIds(procNodes) \ ProcIds(procNodes')
    ELSE {}

\* A call's effect on the histories: the IDs it took out are recorded.
Track ==
    /\ removedIds' = removedIds \cup TakenOut
    /\ UNCHANGED <<uidVars, renderVars, pureVars>>

\* The controller calls, recorded, and getNextUID.
NextIds ==
    \/ /\ \E desc \in Descs \cup {NullDesc}, nodeId \in StateIds, ok \in BOOLEAN :
              AddFilter(desc, nodeId, ok)
       /\ Track
    \/ /\ \E uid \in StateIds : RemoveFilter(uid)
       /\ Track
    \/ /\ \E id \in StateIds : DisconnectFilter(id)
       /\ Track
    \/ /\ RemoveIllegalConnections
       /\ Track
    \/ /\ \E c \in TuplesOver(StateIds) : AddConnection(c)
       /\ Track
    \/ /\ \E index \in IndexInputs : RemoveConnectionAt(index)
       /\ Track
    \/ /\ \E c \in TuplesOver(StateIds) : RemoveConnection(c)
       /\ Track
    \/ /\ \E m \in IdModels : \E failIds \in FailSets(EntryIds(m.nodes)) :
              SetNodeModel(m, failIds, "setNodeModel")
       /\ Track
    \/ /\ graphValid
       /\ \E failIds \in FailSets(EntryIds(nodes)) :
              SetNodeModel(SerializedModel, failIds, "setNodeModel:copy")
       /\ Track
    \/ /\ graphValid
       /\ SetNodeModel(OwnModelCleared, {}, "setNodeModel:self")
       /\ Track
    \/ /\ SavePluginStates
       /\ Track
    \/ /\ Clear
       /\ Track
    \/ /\ GetNextUID
       /\ UNCHANGED <<removedIds, renderVars, pureVars>>

SpecIds == Init /\ [][NextIds]_vars

\* Models for the layout runs: every node present, no arcs or the chain
\* 1 -> 2 -> 3.
PortModels ==
    {[children |-> <<"nodes", "arcs">>,
      nodes |-> EntriesOf(NodeIds, [i \in NodeIds |-> EmptyText]),
      arcs |-> as] :
        as \in {<<>>, <<MakeArc(<<1, 1, 2, 0>>), MakeArc(<<2, 1, 3, 0>>)>>}}

\* The calls that build a graph and prune it, with plugins whose channel
\* layout changes.
NextPorts ==
    \/ /\ \E desc \in Descs, nodeId \in NodeIds, ok \in BOOLEAN :
              AddFilter(desc, nodeId, ok)
       /\ UNCHANGED auxVars
    \/ /\ \E c \in TuplesOver(NodeIds) : AddConnection(c)
       /\ UNCHANGED auxVars
    \/ /\ RemoveIllegalConnections
       /\ UNCHANGED auxVars
    \/ /\ \E m \in PortModels : SetNodeModel(m, {}, "setNodeModel")
       /\ UNCHANGED auxVars
    \/ /\ \E id \in NodeIds, pc \in Layouts : PortsChanged(id, pc)
       /\ UNCHANGED auxVars

SpecPorts == Init /\ [][NextPorts]_vars

\* ------------------------------------------------------- MidiPanic
\* MidiBuffer::addEvent: the event goes behind the events at its sample
\* position and before the later ones.
AddEvent(buffer, e) ==
    LET before == SelectSeq(buffer, LAMBDA x : x.pos <= e.pos)
        after  == SelectSeq(buffer, LAMBDA x : x.pos > e.pos)
    IN  before \o <<e>> \o after

\* MidiPanic::write (buffer, ch, frame) (lines 127-131).
WriteChannel(buffer, ch, frame) ==
    AddEvent(AddEvent(buffer, [kind |-> "allNotesOff", num |-> ch, pos |-> frame]),
             [kind |-> "allSoundOff", num |-> ch, pos |-> frame])

\* MidiPanic::write (buffer, frame) (lines 133-139), from channel c on.
RECURSIVE WriteFrom(_, _, _)
WriteFrom(buffer, c, frame) ==
    IF c > MidiChannels THEN buffer
    ELSE WriteFrom(WriteChannel(buffer, c, frame), c + 1, frame)

Write(buffer, frame) == WriteFrom(buffer, 1, frame)

\* MidiMessage::isControllerOfType.
IsControllerOfType(e, ccNumber) == e.kind = "cc" /\ e.num = ccNumber

\* The loop of processCC (lines 189-203) over the rest of the input.
RECURSIVE ProcessFrom(_, _, _, _)
ProcessFrom(rest, out, ccNumber, processed) ==
    IF rest = <<>> THEN [out |-> out, ret |-> processed]
    ELSE LET msg == Head(rest)
         IN  IF ~IsControllerOfType(msg, ccNumber)
             THEN ProcessFrom(Tail(rest), AddEvent(out, msg), ccNumber, processed)
             ELSE IF ~processed
                  THEN ProcessFrom(Tail(rest), Write(out, msg.pos), ccNumber, TRUE)
                  ELSE ProcessFrom(Tail(rest), out, ccNumber, processed)

\* MidiPanic::processCC (lines 185-206) on the input buffer and an empty
\* output buffer.
ProcessCC(ccNumber) ==
    /\ op = "constructed"
    /\ LET r == ProcessFrom(midi.in, <<>>, ccNumber, FALSE)
       IN  /\ midi' = [in |-> midi.in, out |-> r.out, ret |-> r.ret, cc |-> ccNumber]
           /\ Obs("processCC", IF r.ret THEN 1 ELSE 0, 0, 0)
    /\ UNCHANGED <<procNodes, conns, graphValid, children, nodes, arcs, aborted>>
    /\ UNCHANGED <<uidVars, removedIds, renderVars, portCount, portList>>

\* The events of input buffers: two controller numbers and a note, at the
\* sample positions 0..MaxFrame.
MidiEvents ==
    {[kind |-> k, num |-> n, pos |-> f] :
        k \in {"cc"}, n \in {7, 8}, f \in 0..MaxFrame}
    \cup {[kind |-> "note", num |-> 60, pos |-> f] : f \in 0..MaxFrame}

\* A MidiBuffer keeps its events in the order of their sample positions.
MidiBuffers ==
    {b \in UNION {[1..n -> MidiEvents] : n \in 0..MaxEvents} :
        \A i, j \in DOMAIN b : i < j => b[i].pos <= b[j].pos}

InitMidi ==
    /\ Constructed
    /\ \E b \in MidiBuffers : midi = [NoMidi EXCEPT !.in = b]

NextMidi == \E ccNumber \in {7, 8} : ProcessCC(ccNumber)

SpecMidi == InitMidi /\ [][NextMidi]_vars

\* ------------------------------------------------ PortCount on its own
\* The int arguments of set and with: one negative value, and 0..MaxCount.
CountInputs == (-1)..MaxCount

\* A PortCount call touches the PortCount and nothing of the controller;
\* the list an earlier toPortList returned is gone.
PortCountCall(name, pc) ==
    /\ portCount' = pc
    /\ portList' = <<>>
    /\ Obs(name, 0, 0, 0)
    /\ UNCHANGED <<procNodes, conns, graphValid, children, nodes, arcs, aborted>>
    /\ UNCHANGED <<uidVars, removedIds, renderVars, midi>>

\* toPortList (lines 69-74): a new list filled by getPorts.
ToPortList ==
    /\ portList' = GetPorts(portCount)
    /\ Obs("toPortList", 0, 0, 0)
    /\ UNCHANGED <<procNodes, conns, graphValid, children, nodes, arcs, aborted>>
    /\ UNCHANGED <<uidVars, removedIds, renderVars, midi, portCount>>

\* The operations of a PortCount, from a default-constructed one on.
NextPortCount ==
    \/ PortCountCall("clear", PortCountClear)
    \/ \E t \in PortTypes, n \in CountInputs, input \in BOOLEAN :
           PortCountCall("set", PortCountSetOne(portCount, t, n, input))
    \/ \E t \in PortTypes, numIns, numOuts \in CountInputs :
           PortCountCall("set", PortCountSet(portCount, t, numIns, numOuts))
    \/ \E t \in PortTypes, n \in CountInputs, isInput \in BOOLEAN :
           PortCountCall("with", PortCountWithOne(portCount, t, n, isInput))
    \/ \E t \in PortTypes, numIns, numOuts \in CountInputs :
           PortCountCall("with", PortCountWith(portCount, t, numIns, numOuts))
    \/ PortCountCall("copy", PortCountCopy(portCount))
    \/ ToPortList

SpecPortCount == Init /\ [][NextPortCount]_vars

\* The owner thread's step is not a read, and touches nothing else.
Unread ==
    /\ renderSeen' = NoRead
    /\ UNCHANGED <<uidVars, removedIds, pureVars>>

\* The owner thread runs one call at a time.
Atomic ==
    /\ ~loading.active
    /\ UNCHANGED loading
    /\ Unread

\* The owner thread's structural calls, setNodeModel one processor call at
\* a time, and the render path reading in between.
NextRender ==
    \/ /\ \E desc \in Descs, nodeId \in StateIds, ok \in BOOLEAN :
              AddFilter(desc, nodeId, ok)
       /\ Atomic
    \/ /\ \E uid \in StateIds : RemoveFilter(uid)
       /\ Atomic
    \/ /\ \E c \in TuplesOver(StateIds) : AddConnection(c)
       /\ Atomic
    \/ /\ \E c \in TuplesOver(StateIds) : RemoveConnection(c)
       /\ Atomic
    \/ /\ Clear
       /\ Atomic
    \/ /\ \E m \in IdModels : \E failIds \in FailSets(EntryIds(m.nodes)) :
              LoadBegin(m, failIds)
       /\ Unread
    \/ /\ LoadNode
       /\ Unread
    \/ /\ LoadPrune
       /\ Unread
    \/ /\ LoadArc
       /\ Unread
    \/ /\ LoadEnd
       /\ Unread
    \/ RenderRead

SpecRender == Init /\ [][NextRender]_vars

\* ===================================================================
\* The claims.

SetNodeModelOps == {"setNodeModel", "setNodeModel:copy", "setNodeModel:self"}

\* C1: after every addFilter and removeFilter call returns, the "nodes"
\* collection has as many entries as the processor has nodes.
C1_NodeCountAfterAddRemove ==
    op \in {"addFilter", "removeFilter"} => Len(nodes) = GetNumNodes(procNodes)

\* C2: after every mutating controller call returns, the "arcs" collection
\* has as many entries as the processor has connections (the assertion of
\* getNumConnections, line 125).
C2_ArcCountAfterMutation ==
    op \in {"addFilter", "removeFilter", "disconnectFilter",
            "removeIllegalConnections", "addConnection", "removeConnectionAt",
            "removeConnection", "clear"} \cup SetNodeModelOps
        => Len(arcs) = GetNumConnections(conns)

\* A node that reaches itself along the connections of cs.
OnCycle(cs, n) == \E c \in Range(cs) : c[1] = n /\ n \in ReachableFrom(cs, {c[3]})

Between(cs, ids) == SelectSeq(cs, LAMBDA c : c[1] \in ids /\ c[3] \in ids)

\* C4: savePluginStates, then setNodeModel with the written-out model: the
\* processor holds the same node IDs (less those that failed to
\* instantiate), each with the plugin state it had, and the same connections
\* among them.
C4_RoundTrip ==
    [][(op = "savePluginStates" /\ op' = "setNodeModel:copy") =>
          /\ ProcIds(procNodes') = ProcIds(procNodes) \ failed'
          /\ \A i \in ProcIds(procNodes') : procNodes'[i].state = procNodes[i].state
          /\ conns' = Between(conns, ProcIds(procNodes'))]_vars

\* C5: removeFilter(uid) on a present node removes that node, its entry and
\* every connection and arc touching it, and nothing else.
C5_RemoveFilterExact ==
    [][\A uid \in NodeIds :
          (uid \in ProcIds(procNodes) /\ RemoveFilter(uid)) =>
              /\ \A c \in Range(conns') : c[1] # uid /\ c[3] # uid
              /\ \A a \in Range(arcs') : a.sourceNode # uid /\ a.destNode # uid
              /\ uid \notin EntryIds(nodes')
              /\ procNodes' = [procNodes EXCEPT ![uid] = NoNode]
              /\ nodes' = SelectSeq(nodes, LAMBDA e : e.id # uid)
              /\ conns' = SelectSeq(conns, LAMBDA c : c[1] # uid /\ c[3] # uid)
              /\ arcs' = SelectSeq(arcs, LAMBDA a : a.sourceNode # uid /\ a.destNode # uid)
      ]_vars

\* C5 witness: a removeFilter that removed a node of a loaded graph returned,
\* two nodes and a connection between them are left.
C5_Witness ==
    /\ op = "removeFilter"
    /\ notified = 1
    /\ graphValid
    /\ Len(nodes) = 2
    /\ Len(conns) = 1
    /\ Len(arcs) = 1

\* C6: addConnection with a valid new tuple returns true and adds one
\* connection and one arc; called again at once with the same tuple it
\* returns false, changes nothing and publishes nothing.
C6_AddConnectionIdempotent ==
    [][\A c \in TuplesOver(NodeIds) :
          /\ (ProcCanConnect(procNodes, conns, c) /\ AddConnection(c)) =>
                 /\ result' = 1
                 /\ Len(conns') = Len(conns) + 1
                 /\ Len(arcs') = Len(arcs) + 1
          /\ (/\ op = "addConnection" /\ result = 1
              /\ conns # <<>> /\ c = conns[Len(conns)]
              /\ AddConnection(c)) =>
                 /\ result' = 0
                 /\ conns' = conns
                 /\ arcs' = arcs
                 /\ notified' = 0
      ]_vars

\* procNodes, conns and the two collections stay as they are and no change
\* notification goes out.
NothingDone ==
    /\ UNCHANGED <<procNodes, conns, nodes, arcs>>
    /\ notified' = 0

\* C7: addFilter with a null description or a plugin that cannot be
\* instantiated returns the invalid ID, reports an error, changes nothing
\* and publishes nothing.
C7_AddFilterFailure ==
    [][\A desc \in Descs \cup {NullDesc}, nodeId \in NodeIds, ok \in BOOLEAN :
          ((desc = NullDesc \/ ~ok) /\ AddFilter(desc, nodeId, ok)) =>
              /\ result' = KV_INVALID_NODE
              /\ alerts' = 1
              /\ NothingDone
      ]_vars

\* C7 witness: a failed addFilter returned on a graph with nodes and a
\* connection.
C7_Witness ==
    /\ op = "addFilter"
    /\ result = KV_INVALID_NODE
    /\ alerts = 1
    /\ Len(nodes) >= 2
    /\ Len(arcs) >= 1

\* C8: removeFilter on an ID the processor does not hold changes nothing and
\* publishes nothing.
C8_RemoveUnknown ==
    [][\A uid \in NodeIds :
          (uid \notin ProcIds(procNodes) /\ RemoveFilter(uid)) => NothingDone]_vars

\* C8 witness: a removeFilter that found no node returned on a graph with
\* nodes and a connection.
C8_Witness ==
    /\ op = "removeFilter"
    /\ notified = 0
    /\ Len(nodes) >= 2
    /\ Len(arcs) >= 1

\* C9: removeConnection by an index or a tuple that names no connection,
\* and disconnectFilter on a node without connections, change nothing and
\* publish nothing; a notification goes out only when a connection went.
C9_SilentNoOps ==
    [][/\ \A index \in (-1)..Len(conns) :
              RemoveConnectionAt(index) =>
                  /\ index \notin 0..(Len(conns) - 1) => NothingDone
                  /\ notified' > 0 => Len(conns') < Len(conns)
       /\ \A c \in TuplesOver(NodeIds) :
              RemoveConnection(c) =>
                  /\ c \notin Range(conns) => NothingDone
                  /\ notified' > 0 => Len(conns') < Len(conns)
       /\ \A id \in NodeIds :
              DisconnectFilter(id) =>
                  /\ (\A c \in Range(conns) : c[1] # id /\ c[3] # id) => NothingDone
                  /\ notified' > 0 => Len(conns') < Len(conns)
      ]_vars

\* C10: after setNodeModel the "nodes" collection holds exactly the entries
\* that could be instantiated, each registered in the processor under its
\* stored ID, and as many entries as the processor has nodes.
C10_PartialLoad ==
    op \in SetNodeModelOps =>
        /\ EntryIds(nodes) = requested \ failed
        /\ Len(nodes) = Cardinality(requested \ failed)
        /\ \A i \in DOMAIN nodes :
               /\ procNodes[nodes[i].id].live
               /\ procNodes[nodes[i].id].desc = nodes[i].desc
               /\ nodes[i].object
        /\ ProcIds(procNodes) = EntryIds(nodes)
        /\ Len(nodes) = GetNumNodes(procNodes)

\* C10 witness: a load in which one entry failed and others did not.
C10_Witness ==
    /\ op = "setNodeModel"
    /\ failed # {}
    /\ Len(nodes) >= 2
    /\ conns = <<>>
    /\ requested = NodeIds

\* C11: the first N values getNextUID returns are strictly increasing, for
\* every N the counter can represent.
C11_NextUidIncreasing ==
    \A n \in 1..(UidModulus - 1) :
        n <= Len(issued) =>
            \A i, j \in 1..n : i < j => issued[i] < issued[j]

\* C11 witness: as many calls as the counter can represent have returned.
C11_Witness ==
    /\ op = "getNextUID"
    /\ Len(issued) = UidModulus - 1
    /\ result = UidModulus - 1

\* C12: an ID that removeFilter or clear took out of the processor is never
\* present in it again.
C12_RemovedIsTerminal == removedIds \cap ProcIds(procNodes) = {}

\* C13: whatever the render path reads is a complete topology: the one
\* before the controller call in progress or the one after it.
C13_RenderSeesComplete == renderSeen.read => renderSeen.topology \in renderSeen.complete

\* The number of ports of a layout.
RECURSIVE PortTotalFrom(_, _)
PortTotalFrom(pc, t) ==
    IF t >= NumPortTypes THEN 0
    ELSE pc.inputs[t] + pc.outputs[t] + PortTotalFrom(pc, t + 1)

\* Both port indices of connection c exist on their nodes as they are now.
IndicesValid(c) ==
    /\ c[2] < PortTotalFrom(procNodes[c[1]].ports, 0)
    /\ c[4] < PortTotalFrom(procNodes[c[3]].ports, 0)

\* C14: removeIllegalConnections removes exactly the connections with a port
\* index that no longer exists on its node and keeps the others as they
\* were; afterwards "arcs" equals the connections left, and a notification
\* goes out only if a connection was removed.
C14_RemoveIllegalExact ==
    [][RemoveIllegalConnections =>
          /\ conns' = SelectSeq(conns, IndicesValid)
          /\ arcs' = NewArcs(conns')
          /\ notified' > 0 => conns' # conns
      ]_vars

\* C15: clear() on a controller with a model leaves the processor without
\* nodes and connections, keeps the "nodes" and "arcs" containers under the
\* root, both empty, and publishes a change notification.
C15_ClearEmpties ==
    [][(graphValid /\ Clear) =>
          /\ GetNumNodes(procNodes') = 0
          /\ GetNumConnections(conns') = 0
          /\ "nodes" \in Range(children')
          /\ "arcs" \in Range(children')
          /\ nodes' = <<>>
          /\ arcs' = <<>>
          /\ notified' >= 1
      ]_vars

\* C15 witness: clear() has returned on a controller with a model.
C15_Witness ==
    /\ op = "clear"
    /\ graphValid
    /\ notified = 1
    /\ procNodes = ProcClearNodes
    /\ children = <<"nodes", "arcs">>

\* The state block the plugin of entry e yields: empty without a live node.
Yields(e) == IF e.object /\ procNodes[e.id].live THEN procNodes[e.id].state ELSE 0

\* C16: savePluginStates puts a node's plugin state into its entry's state
\* property exactly when that state is not empty, and otherwise leaves the
\* property as it was; entries, nodes, connections and every other property
\* stay as they are.
C16_SaveWritesNonEmpty ==
    [][SavePluginStates =>
          /\ Len(nodes') = Len(nodes)
          /\ \A i \in DOMAIN nodes :
                 /\ Yields(nodes[i]) > 0 =>
                        /\ FromBase64Ok(nodes'[i].state)
                        /\ FromBase64Block(nodes'[i].state) = Yields(nodes[i])
                 /\ Yields(nodes[i]) = 0 => nodes'[i].state = nodes[i].state
                 /\ [nodes'[i] EXCEPT !.state = nodes[i].state] = nodes[i]
          /\ UNCHANGED <<procNodes, conns, graphValid, children, arcs>>
      ]_vars

\* C16 witness: savePluginStates has returned; one node's state was written
\* and another node, whose plugin yields nothing, has no state property.
C16_Witness ==
    /\ op = "savePluginStates"
    /\ \E i, j \in DOMAIN nodes :
           /\ Yields(nodes[i]) > 0
           /\ nodes[i].state = ToBase64Encoding(Yields(nodes[i]))
           /\ Yields(nodes[j]) = 0
           /\ nodes[j].state = EmptyText

\* Every count of pc is zero or more.
NonNegative(pc) == \A t \in PortTypes : pc.inputs[t] >= 0 /\ pc.outputs[t] >= 0

\* The ports of list in direction isInput and of kind t, in emission order.
PortsOfKind(list, t, isInput) ==
    SelectSeq(list, LAMBDA p : p.type = t /\ p.input = isInput)

\* C17: for a PortCount without negative counts, toPortList emits as many
\* ports as the counts add up to, with global indices 0, 1, ... in emission
\* order, the kinds in enumeration order, within a kind the inputs before
\* the outputs, channels counted from 0 per kind and direction, and names
\* numbered channel + 1.
C17_PortExpansion ==
    (op = "toPortList" /\ NonNegative(portCount)) =>
        /\ Len(portList) = PortTotalFrom(portCount, 0)
        /\ \A k \in DOMAIN portList :
               /\ portList[k].index = k - 1
               /\ portList[k].number = portList[k].channel + 1
        /\ \A k, l \in DOMAIN portList :
               k < l =>
                   /\ portList[k].type <= portList[l].type
                   /\ portList[k].type = portList[l].type =>
                          (portList[k].input \/ ~portList[l].input)
        /\ \A t \in PortTypes :
               /\ Len(PortsOfKind(portList, t, TRUE)) = portCount.inputs[t]
               /\ Len(PortsOfKind(portList, t, FALSE)) = portCount.outputs[t]
               /\ \A dir \in BOOLEAN :
                      \A k \in DOMAIN PortsOfKind(portList, t, dir) :
                          PortsOfKind(portList, t, dir)[k].channel = k - 1

\* C17 witness: a list was made from a PortCount with two inputs and an
\* output of the first kind and ports of the second kind as well.
C17_Witness ==
    /\ op = "toPortList"
    /\ portCount.inputs[0] = 2
    /\ portCount.outputs[0] = 1
    /\ portCount.inputs[1] = 1
    /\ portCount.outputs[1] = 2
    /\ Len(portList) = 6

\* C18: a PortCount made by its constructor, clear, set, with and copy has
\* no negative count.
C18_CountsNonNegative == NonNegative(portCount)

\* The panic set at sample position frame: all-notes-off and all-sound-off
\* on every channel.
RECURSIVE PanicSetFrom(_, _)
PanicSetFrom(c, frame) ==
    IF c > MidiChannels THEN <<>>
    ELSE <<[kind |-> "allNotesOff", num |-> c, pos |-> frame],
           [kind |-> "allSoundOff", num |-> c, pos |-> frame]>>
         \o PanicSetFrom(c + 1, frame)

\* The input with every controller of number ccNumber replaced by the panic
\* set at its sample position.
RECURSIVE Replaced(_, _)
Replaced(buffer, ccNumber) ==
    IF buffer = <<>> THEN <<>>
    ELSE (IF IsControllerOfType(Head(buffer), ccNumber)
          THEN PanicSetFrom(1, Head(buffer).pos)
          ELSE <<Head(buffer)>>)
         \o Replaced(Tail(buffer), ccNumber)

\* C19: processCC leaves the input buffer as it was; the output buffer holds
\* the input's events in order, each controller of the given number replaced
\* by the panic set at its sample position; the result is true exactly when
\* the input held such a controller.
C19_ProcessCC ==
    [][\A ccNumber \in {7, 8} :
          ProcessCC(ccNumber) =>
              /\ midi'.in = midi.in
              /\ midi'.out = Replaced(midi.in, ccNumber)
              /\ midi'.ret = (\E i \in DOMAIN midi.in :
                                 IsControllerOfType(midi.in[i], ccNumber))
      ]_vars

\* The calls that end in processorArcsChanged on the graph they started with.
ArcsRebuilt ==
    /\ op' \in {"removeFilter", "disconnectFilter", "removeIllegalConnections",
                "addConnection", "removeConnectionAt", "removeConnection"}
    /\ notified' = 1
    /\ aborted' = aborted

\* C20: after processorArcsChanged the "arcs" collection holds, in order, one
\* entry per connection of the processor with the connection's 4-tuple; it
\* stands at the sibling position the previous collection had; and whenever a
\* listener finds an "arcs" collection under the root during the call, it is
\* the complete new one.
C20_ArcsRebuilt ==
    [][ArcsRebuilt =>
          /\ arcs' = NewArcs(conns')
          /\ \A i \in 1..Len(conns') : ArcTuple(arcs'[i]) = conns'[i]
          /\ IndexOf(children', "arcs") = IndexOf(children, "arcs")
          /\ \A v \in Range(SwapViews(graphValid, children, conns')) :
                 IndexOf(v.children, "arcs") >= 0 => v.entries = NewArcs(conns')
      ]_vars

\* The second loop of a setNodeModel in progress is through: the program
\* stands at line 210, before the final resync.
AtLoadAssertion ==
    loading.active /\ loading.phase = "arcs" /\ loading.i = Len(arcs)

\* C21: in setNodeModel, once every stored tuple has been applied and before
\* the final resync, the supplied model has as many "arcs" entries as the
\* processor has connections, whatever the model and whichever entries failed
\* to instantiate.
C21_LoadAssertion ==
    AtLoadAssertion => Len(arcs) = GetNumConnections(conns)

\* What a load of the graph g = [nodes, arcs] is to bring up when the entries
\* of failIds cannot be instantiated: the other entries' nodes and the arcs
\* the processor accepts between them.
LoadedFrom(g, failIds) ==
    LET pn == CreateEntries(ProcClearNodes, g.nodes, failIds)
    IN  Topology(pn, ApplyArcs(pn, <<>>, g.arcs))

\* C22: setNodeModel(g) loads every instantiable entry and every valid arc of
\* g, whatever the controller held before, also when g is the graph the
\* controller holds at the call.
C22_LoadsSuppliedGraph ==
    [][/\ \A m \in TopologyModels : \A failIds \in FailSets(EntryIds(m.nodes)) :
              SetNodeModel(m, failIds, "setNodeModel") =>
                  Topology(procNodes', conns') = LoadedFrom(m, failIds)
       /\ (graphValid /\ SetNodeModel(OwnModelCleared, {}, "setNodeModel:self")) =>
              Topology(procNodes', conns') = LoadedFrom([nodes |-> nodes, arcs |-> arcs], {})
      ]_vars

\* C23: a value getNextUID returns is not the ID of a node the processor
\* holds at the time of the call, whatever IDs addFilter was given and
\* setNodeModel found stored.
C23_FreshUid == op = "getNextUID" => result \notin ProcIds(procNodes)

\* No ID stands twice in the collection ns.
DistinctIds(ns) == \A i, j \in DOMAIN ns : ns[i].id = ns[j].id => i = j

\* C24: after every controller operation the IDs of the "nodes" collection
\* are the IDs registered in the processor, none of them twice, and both
\* ends of every "arcs" entry are among them.
C24_ModelMatchesProcessor ==
    /\ EntryIds(nodes) = ProcIds(procNodes)
    /\ DistinctIds(nodes)
    /\ \A i \in DOMAIN arcs :
           {arcs[i].sourceNode, arcs[i].destNode} \subseteq EntryIds(nodes)

====
